---- MODULE Spec2Model ----
(***************************************************************************)
(* Elliptic-curve arithmetic core of the `ecc` crate: the extended         *)
(* Euclidean algorithm, the modular multiplicative inverse built on it,    *)
(* and the group law (add, negate) of short Weierstrass curve points.      *)
(*                                                                         *)
(* num::BigInt is modelled by TLA+ integers.  BigInt `/` truncates towards *)
(* zero and Euclid::rem_euclid yields the least nonnegative residue; both  *)
(* panic on a zero divisor.                                                *)
(***************************************************************************)
EXTENDS Integers, Sequences, FiniteSets, TLC

VARIABLES
    ee_a, ee_b,      \* arguments of the running extended_euclidean call
    ee,              \* its locals: remainder_prev, remainder, s_prev, s, t_prev, t
    ee_pc,           \* "idle" | "loop" | "done"
    ee_result,       \* the ExtendedEuclideanResult once returned
    inv_a, inv_m,    \* arguments of the mod_mul_inverse call
    inv_result,      \* its outcome
    curve,           \* the curve parameters the points belong to
    p,               \* the point the operation is applied to (self)
    op,              \* which point operation has been applied
    res              \* what it produced

vars == <<ee_a, ee_b, ee, ee_pc, ee_result, inv_a, inv_m, inv_result,
          curve, p, op, res>>

eeVars    == <<ee_a, ee_b, ee, ee_pc, ee_result>>
invVars   == <<inv_a, inv_m, inv_result>>
pointVars == <<curve, p, op, res>>

-----------------------------------------------------------------------------
(* Bounds of the explored input space. *)

\* Arguments of extended_euclidean / mod_mul_inverse range over -MaxAbs..MaxAbs.
MaxAbs == 12

\* Caller-supplied coordinates range over -CoordSlack .. m-1+CoordSlack.
CoordSlack == 1

\* Scalars of multiply range over 0..MaxScalar, and the scalar of the test
\* scalar_point_multiplication.
MaxScalar == 20

\* The generator walk stops after MaxWalk additions if it has not come back.
MaxWalk == 16

\* The closure of the generator under add is explored up to MaxReached points.
MaxReached == 8

-----------------------------------------------------------------------------
(* BigInt arithmetic. *)

Abs(n) == IF n < 0 THEN -n ELSE n

\* Division of the magnitudes, the sign of the quotient lost.
TruncDivUnsigned(n, d) == Abs(n) \div Abs(d)

\* BigInt division truncates towards zero (only used with d # 0).
TruncDiv(n, d) ==
    IF (n < 0) = (d < 0) THEN Abs(n) \div Abs(d) ELSE -(Abs(n) \div Abs(d))

\* The native remainder `%`, whose sign follows the dividend.
RemTruncated(n, d) == IF n < 0 THEN -((-n) % Abs(d)) ELSE n % Abs(d)

\* Euclid::rem_euclid for a nonzero modulus: the residue in [0, |d|).
RemEuclid(n, d) == n % Abs(d)

-----------------------------------------------------------------------------
(* extended_euclidean *)

NoResult == [kind |-> "None"]

\* The seeding with the else branch seeded like the then branch.
EESeedSwapped(a, b) ==
    IF a > b
    THEN [remainder_prev |-> a, remainder |-> b,
          s_prev |-> 1, s |-> 0, t_prev |-> 0, t |-> 1]
    ELSE [remainder_prev |-> b, remainder |-> a,
          s_prev |-> 1, s |-> 0, t_prev |-> 0, t |-> 1]

\* The seeding of the remainder and coefficient sequences.
EESeed(a, b) ==
    IF a > b
    THEN [remainder_prev |-> a, remainder |-> b,
          s_prev |-> 1, s |-> 0, t_prev |-> 0, t |-> 1]
    ELSE [remainder_prev |-> b, remainder |-> a,
          s_prev |-> 0, s |-> 1, t_prev |-> 1, t |-> 0]

\* One iteration of the while loop (remainder # 0).
EEStep(st) ==
    LET quotient == TruncDiv(st.remainder_prev, st.remainder)
    IN  [remainder_prev |-> st.remainder,
         remainder      |-> st.remainder_prev - quotient * st.remainder,
         s_prev         |-> st.s,
         s              |-> st.s_prev - quotient * st.s,
         t_prev         |-> st.t,
         t              |-> st.t_prev - quotient * st.t]

\* The return without the sign adjustment.
EEFinishNoSign(st) ==
    [gcd                  |-> st.remainder_prev,
     bezout_coefficient_a |-> st.s_prev,
     bezout_coefficient_b |-> st.t_prev]

\* After the loop: the gcd is returned nonnegative, coefficients adjusted.
EEFinish(st) ==
    IF st.remainder_prev < 0
    THEN [gcd                  |-> st.remainder_prev * (-1),
          bezout_coefficient_a |-> st.s_prev * (-1),
          bezout_coefficient_b |-> st.t_prev * (-1)]
    ELSE [gcd                  |-> st.remainder_prev,
          bezout_coefficient_a |-> st.s_prev,
          bezout_coefficient_b |-> st.t_prev]

RECURSIVE EELoop(_)
EELoop(st) == IF st.remainder # 0 THEN EELoop(EEStep(st)) ELSE st

\* The whole function, as its callers use it.
extended_euclidean(a, b) == EEFinish(EELoop(EESeed(a, b)))

-----------------------------------------------------------------------------
(* mod_mul_inverse *)

Ok(v) == [kind |-> "Ok", value |-> v]
Panic == [kind |-> "Panic"]

\* The pre-rem_euclid revision: the raw Bezout coefficient.
mod_mul_inverse_raw(a, b) == Ok(extended_euclidean(a, b).bezout_coefficient_a)

\* rem_euclid(bezout_coefficient_a, b); a zero modulus divides by zero.
mod_mul_inverse(a, b) ==
    IF b = 0
    THEN Panic
    ELSE Ok(RemEuclid(extended_euclidean(a, b).bezout_coefficient_a, b))

-----------------------------------------------------------------------------
(* Curve parameters and points. *)

\* create_test_curve(): generator (4, 10), modulus 11, a = 0, on y^2 = x^3 + 3.
TestCurve ==
    [field_modulus |-> 11, parameter_a |-> 0, b |-> 3]

\* A second parameterization, with a nonzero coefficient a: y^2 = x^3 + x + 1
\* over F_5.
SmallCurve ==
    [field_modulus |-> 5, parameter_a |-> 1, b |-> 1]

Curves == {TestCurve, SmallCurve}

PointAtInfinity == [kind |-> "PointAtInfinity"]
Point(x, y) == [kind |-> "Point", x |-> x, y |-> y]

\* The points a caller can construct: CurvePoint::new validates nothing.
InputPoints(c) ==
    {PointAtInfinity} \cup
    {Point(x, y) : x \in -CoordSlack..(c.field_modulus - 1 + CoordSlack),
                   y \in -CoordSlack..(c.field_modulus - 1 + CoordSlack)}

\* Whether pt is a point of curve c with coordinates in [0, m).
OnCurve(c, pt) ==
    \/ pt = PointAtInfinity
    \/ /\ pt.kind = "Point"
       /\ pt.x \in 0..(c.field_modulus - 1)
       /\ pt.y \in 0..(c.field_modulus - 1)
       /\ (pt.y * pt.y) % c.field_modulus
            = (pt.x * pt.x * pt.x + c.parameter_a * pt.x + c.b) % c.field_modulus

\* Whether pt is the point at infinity or has both coordinates in [0, m).
InRange(c, pt) ==
    \/ pt = PointAtInfinity
    \/ /\ pt.kind = "Point"
       /\ pt.x \in 0..(c.field_modulus - 1)
       /\ pt.y \in 0..(c.field_modulus - 1)

InRangePoints(c) == {pt \in InputPoints(c) : InRange(c, pt)}

CurvePoints(c) == {pt \in InputPoints(c) : OnCurve(c, pt)}

\* The generator of each parameterization: (4, 10) on the test curve.
generator(c) == IF c = TestCurve THEN Point(4, 10) ELSE Point(0, 1)

\* The order of the group the curve's points form.
GroupOrder(c) == Cardinality(CurvePoints(c))

-----------------------------------------------------------------------------
(* CurvePoint::add *)

\* The tangent rule with x_r = lambda^2 - x_p, the factor 2 forgotten.
add_double_single_x(c, pt) ==
    LET m   == c.field_modulus
        inv == mod_mul_inverse(2 * pt.y, m)
    IN  IF inv.kind = "Panic" THEN Panic
        ELSE LET lambda == RemEuclid((3 * pt.x * pt.x + c.parameter_a) * inv.value, m)
                 x_r    == RemEuclid(lambda * lambda - pt.x, m)
                 y_r    == RemEuclid(lambda * (-x_r + pt.x) - pt.y, m)
             IN  Point(x_r, y_r)

\* The p == q branch: the tangent rule.
add_double(c, pt) ==
    LET m   == c.field_modulus
        inv == mod_mul_inverse(2 * pt.y, m)
    IN  IF inv.kind = "Panic" THEN Panic
        ELSE LET lambda == RemEuclid((3 * pt.x * pt.x + c.parameter_a) * inv.value, m)
                 x_r    == RemEuclid(lambda * lambda - 2 * pt.x, m)
                 y_r    == RemEuclid(lambda * (-x_r + pt.x) - pt.y, m)
             IN  Point(x_r, y_r)

\* The chord rule with the operands' roles in y_r exchanged for x only.
add_chord_asym(c, pt, qt) ==
    LET m   == c.field_modulus
        inv == mod_mul_inverse(qt.x - pt.x, m)
    IN  IF inv.kind = "Panic" THEN Panic
        ELSE LET lambda == RemEuclid((qt.y - pt.y) * inv.value, m)
                 x_r    == RemEuclid(lambda * lambda - pt.x - qt.x, m)
                 y_r    == RemEuclid(lambda * (qt.x - x_r) - pt.y, m)
             IN  Point(x_r, y_r)

\* The else branch (distinct x): the chord rule.
add_chord(c, pt, qt) ==
    LET m   == c.field_modulus
        inv == mod_mul_inverse(qt.x - pt.x, m)
    IN  IF inv.kind = "Panic" THEN Panic
        ELSE LET lambda == RemEuclid((qt.y - pt.y) * inv.value, m)
                 x_r    == RemEuclid(lambda * lambda - pt.x - qt.x, m)
                 y_r    == RemEuclid(lambda * (pt.x - x_r) - pt.y, m)
             IN  Point(x_r, y_r)

\* add with the (Point, PointAtInfinity) arm returning the identity.
add_absorbing(c, pt, qt) ==
    IF pt.kind = "PointAtInfinity" /\ qt.kind = "PointAtInfinity" THEN PointAtInfinity
    ELSE IF pt.kind = "PointAtInfinity" THEN qt
    ELSE IF qt.kind = "PointAtInfinity" THEN PointAtInfinity
    ELSE IF pt = qt THEN add_double(c, pt)
    ELSE IF pt.x = qt.x THEN PointAtInfinity
    ELSE add_chord(c, pt, qt)

add(c, pt, qt) ==
    IF pt.kind = "PointAtInfinity" /\ qt.kind = "PointAtInfinity" THEN PointAtInfinity
    ELSE IF pt.kind = "PointAtInfinity" THEN qt
    ELSE IF qt.kind = "PointAtInfinity" THEN pt
    ELSE IF pt = qt THEN add_double(c, pt)
    ELSE IF pt.x = qt.x THEN PointAtInfinity
    ELSE add_chord(c, pt, qt)

\* add of two outcomes: a panic of an inner call unwinds through the outer one.
add_results(c, pt, qt) ==
    IF pt.kind = "Panic" \/ qt.kind = "Panic" THEN Panic ELSE add(c, pt, qt)

-----------------------------------------------------------------------------
(* CurvePoint::negate *)

negate(c, pt) ==
    IF pt.kind # "Point" THEN PointAtInfinity
    ELSE LET inv == mod_mul_inverse(pt.y, c.field_modulus)
         IN  IF inv.kind = "Panic" THEN Panic ELSE Point(pt.x, inv.value)

-----------------------------------------------------------------------------
(* CurvePoint::multiply *)

\* The scalar of the test scalar_point_multiplication: 256 + 16 + 4 + 1.
TestScalar == 277

Scalars == 0..MaxScalar \cup {TestScalar}

\* BigInt::bits of a nonnegative integer: the number of bits of its magnitude.
RECURSIVE bits(_)
bits(n) == IF n = 0 THEN 0 ELSE 1 + bits(n \div 2)

\* two.pow(i)
RECURSIVE pow2(_)
pow2(i) == IF i = 0 THEN 1 ELSE 2 * pow2(i - 1)

\* One doubling too many: scalar.bits() without the - 1.
mul_doublings_plus_one(scalar) == bits(scalar)

\* The number of doublings: scalar.bits() - 1 (scalar # 0).
mul_doublings(scalar) == bits(scalar) - 1

\* The locals of a multiply call at its entry.
mul_enter(scalar) ==
    [scalar_arg   |-> scalar,     \* the scalar argument
     double_cache |-> << >>,      \* entry i + 1 is 2^i * self
     result       |-> PointAtInfinity,
     scalar       |-> scalar,     \* the remaining scalar of the while loop
     consumed     |-> << >>]      \* the cache indices read so far, in order

\* One iteration of the for loop: push cache[i - 1] + cache[i - 1].
mul_push(c, st) ==
    LET last == st.double_cache[Len(st.double_cache)]
    IN  [st EXCEPT !.double_cache = Append(@, add_results(c, last, last))]

\* The cache index an iteration of the while loop reads: scalar.bits() - 1.
next_smaller_power_of_two(scalar) == bits(scalar) - 1

\* One iteration of the while loop (index within the cache).
mul_accumulate(c, st) ==
    LET index == next_smaller_power_of_two(st.scalar)
    IN  [st EXCEPT !.scalar   = @ - pow2(index),
                   !.result   = add_results(c, @, st.double_cache[index + 1]),
                   !.consumed = Append(@, index)]

RECURSIVE mul_cache_loop(_, _)
mul_cache_loop(c, st) ==
    IF Len(st.double_cache) < mul_doublings(st.scalar_arg) + 1
    THEN mul_cache_loop(c, mul_push(c, st))
    ELSE st

RECURSIVE mul_while_loop(_, _)
mul_while_loop(c, st) ==
    IF st.scalar = 0 THEN st.result
    ELSE IF next_smaller_power_of_two(st.scalar) + 1 > Len(st.double_cache) THEN Panic
    ELSE mul_while_loop(c, mul_accumulate(c, st))

\* The whole function, as its callers use it (scalar >= 0).
multiply(c, pt, scalar) ==
    IF scalar = 0 THEN PointAtInfinity
    ELSE mul_while_loop(c,
            mul_cache_loop(c, [mul_enter(scalar) EXCEPT !.double_cache = <<pt>>]))

-----------------------------------------------------------------------------
(* Idle values of the variables a specification does not use. *)

EEIdle ==
    /\ ee_a = 0 /\ ee_b = 0
    /\ ee = EESeed(0, 0)
    /\ ee_pc = "idle"
    /\ ee_result = NoResult

InvIdle ==
    /\ inv_a = 0 /\ inv_m = 1
    /\ inv_result = NoResult

PointIdle ==
    /\ curve = TestCurve
    /\ p = PointAtInfinity
    /\ op = "none"
    /\ res = NoResult

-----------------------------------------------------------------------------
(* A call of extended_euclidean(a, b), one loop iteration per step. *)

InitEuclid ==
    /\ ee_a \in -MaxAbs..MaxAbs
    /\ ee_b \in -MaxAbs..MaxAbs
    /\ ee = EESeed(ee_a, ee_b)
    /\ ee_pc = "loop"
    /\ ee_result = NoResult
    /\ InvIdle /\ PointIdle

EEIterate ==
    /\ ee_pc = "loop"
    /\ ee.remainder # 0
    /\ ee' = EEStep(ee)
    /\ UNCHANGED <<ee_a, ee_b, ee_pc, ee_result>>
    /\ UNCHANGED <<invVars, pointVars>>

EEReturn ==
    /\ ee_pc = "loop"
    /\ ee.remainder = 0
    /\ ee_result' = EEFinish(ee)
    /\ ee_pc' = "done"
    /\ UNCHANGED <<ee_a, ee_b, ee>>
    /\ UNCHANGED <<invVars, pointVars>>

NextEuclid == EEIterate \/ EEReturn

SpecEuclid == InitEuclid /\ [][NextEuclid]_vars

\* The call runs to its return: a synchronous computation that is never
\* suspended takes its next step whenever it has one.
SpecEuclidFair == SpecEuclid /\ WF_vars(NextEuclid)

-----------------------------------------------------------------------------
(* A call of mod_mul_inverse(a, m). *)

InitInverse ==
    /\ inv_a \in -MaxAbs..MaxAbs
    /\ inv_m \in -MaxAbs..MaxAbs
    /\ inv_result = NoResult
    /\ EEIdle /\ PointIdle

CallModMulInverse ==
    /\ inv_result = NoResult
    /\ inv_result' = mod_mul_inverse(inv_a, inv_m)
    /\ UNCHANGED <<inv_a, inv_m>>
    /\ UNCHANGED <<eeVars, pointVars>>

NextInverse == CallModMulInverse

SpecInverse == InitInverse /\ [][NextInverse]_vars

-----------------------------------------------------------------------------
(* Operations on the points of a curve. *)

Init ==
    /\ curve \in Curves
    /\ p \in InputPoints(curve)
    /\ op = "none"
    /\ res = NoResult
    /\ EEIdle /\ InvIdle

\* &p + &q, and the same sum with the operands exchanged.
AddPoints ==
    /\ op = "none"
    /\ \E q \in InputPoints(curve) :
          res' = [q |-> q, sum |-> add(curve, p, q), sum_swapped |-> add(curve, q, p)]
    /\ op' = "add"
    /\ UNCHANGED <<curve, p>>
    /\ UNCHANGED <<eeVars, invVars>>

\* (p + q) + r and p + (q + r), as in the test multiplication_is_associative.
AssociateSums ==
    /\ op = "none"
    /\ \E q \in CurvePoints(curve), r \in CurvePoints(curve) :
          res' = [q |-> q, r |-> r,
                  left_first  |-> add_results(curve, add(curve, p, q), r),
                  right_first |-> add_results(curve, p, add(curve, q, r))]
    /\ op' = "associate"
    /\ UNCHANGED <<curve, p>>
    /\ UNCHANGED <<eeVars, invVars>>

\* p.negate() and p + p.negate(), as in the test negate_points.
NegatePoint ==
    /\ op = "none"
    /\ res' = [negated |-> negate(curve, p),
               sum     |-> add_results(curve, p, negate(curve, p))]
    /\ op' = "negate"
    /\ UNCHANGED <<curve, p>>
    /\ UNCHANGED <<eeVars, invVars>>

Next == AddPoints \/ AssociateSums \/ NegatePoint

Spec == Init /\ [][Next]_vars

-----------------------------------------------------------------------------
(* A call of p.multiply(scalar), one loop iteration per step, followed by   *)
(* the loop of the test scalar_point_multiplication that adds p scalar      *)
(* times to addition_result.                                                *)
(* op: "multiply" (entry) | "cache" (for loop) | "accumulate" (while loop)  *)
(*     | "multiplied" (returned) | "panicked" (index out of bounds).        *)

InitMultiply ==
    /\ curve \in Curves
    /\ p \in CurvePoints(curve)
    /\ op = "multiply"
    /\ \E scalar \in Scalars :
          res = mul_enter(scalar) @@ [addition_result |-> PointAtInfinity, added |-> 0]
    /\ EEIdle /\ InvIdle

\* scalar == 0 returns at once; otherwise the cache starts with self.
MulEnter ==
    /\ op = "multiply"
    /\ IF res.scalar_arg = 0
       THEN op' = "multiplied" /\ res' = res
       ELSE op' = "cache" /\ res' = [res EXCEPT !.double_cache = <<p>>]
    /\ UNCHANGED <<curve, p>>
    /\ UNCHANGED <<eeVars, invVars>>

\* for i in 1..=doublings
MulPush ==
    /\ op = "cache"
    /\ Len(res.double_cache) < mul_doublings(res.scalar_arg) + 1
    /\ res' = mul_push(curve, res)
    /\ UNCHANGED <<curve, p, op>>
    /\ UNCHANGED <<eeVars, invVars>>

\* The for loop is over: result = PointAtInfinity, scalar = scalar.clone().
MulCacheDone ==
    /\ op = "cache"
    /\ Len(res.double_cache) >= mul_doublings(res.scalar_arg) + 1
    /\ op' = "accumulate"
    /\ UNCHANGED <<curve, p, res>>
    /\ UNCHANGED <<eeVars, invVars>>

\* while scalar != 0: index the cache, clear the bit, add.
MulAccumulate ==
    /\ op = "accumulate"
    /\ res.scalar # 0
    /\ IF next_smaller_power_of_two(res.scalar) + 1 > Len(res.double_cache)
       THEN op' = "panicked" /\ res' = res
       ELSE op' = op /\ res' = mul_accumulate(curve, res)
    /\ UNCHANGED <<curve, p>>
    /\ UNCHANGED <<eeVars, invVars>>

MulReturn ==
    /\ op = "accumulate"
    /\ res.scalar = 0
    /\ op' = "multiplied"
    /\ UNCHANGED <<curve, p, res>>
    /\ UNCHANGED <<eeVars, invVars>>

\* for _ in 0..scalar { addition_result = add(addition_result, p) }
TestAddAgain ==
    /\ op = "multiplied"
    /\ res.added < res.scalar_arg
    /\ res' = [res EXCEPT !.addition_result = add_results(curve, @, p),
                          !.added = @ + 1]
    /\ UNCHANGED <<curve, p, op>>
    /\ UNCHANGED <<eeVars, invVars>>

NextMultiply ==
    MulEnter \/ MulPush \/ MulCacheDone \/ MulAccumulate \/ MulReturn \/ TestAddAgain

SpecMultiply == InitMultiply /\ [][NextMultiply]_vars

-----------------------------------------------------------------------------
(* Sums of multiples of the generator, as in the test                       *)
(* encoding_rational_numbers: x * G + y * G against ((x + y) mod n) * G.    *)

InitOrder ==
    /\ curve \in Curves
    /\ p = generator(curve)
    /\ op = "none"
    /\ res = NoResult
    /\ EEIdle /\ InvIdle

AddMultiples ==
    /\ op = "none"
    /\ \E x \in 0..(GroupOrder(curve) - 1), y \in 0..(GroupOrder(curve) - 1) :
          res' = [x |-> x, y |-> y,
                  rational_multiplication |->
                      add_results(curve, multiply(curve, p, x), multiply(curve, p, y)),
                  whole_multiplication |->
                      multiply(curve, p, (x + y) % GroupOrder(curve))]
    /\ op' = "add_multiples"
    /\ UNCHANGED <<curve, p>>
    /\ UNCHANGED <<eeVars, invVars>>

NextOrder == AddMultiples

SpecOrder == InitOrder /\ [][NextOrder]_vars

-----------------------------------------------------------------------------
(* The loop of the test can_generate_all_points: starting at the generator  *)
(* p, new_point = add(p, new_point) until new_point is the generator again. *)

InitWalk ==
    /\ curve \in Curves
    /\ p \in CurvePoints(curve)
    /\ op = "walk"
    /\ res = [new_point |-> p, computed_points |-> <<p>>]
    /\ EEIdle /\ InvIdle

WalkAdd ==
    /\ op = "walk"
    /\ Len(res.computed_points) <= MaxWalk
    /\ LET next_point == add_results(curve, p, res.new_point)
       IN  /\ res' = [new_point |-> next_point,
                      computed_points |-> Append(res.computed_points, next_point)]
           /\ op' = IF next_point = p THEN "walked" ELSE "walk"
    /\ UNCHANGED <<curve, p>>
    /\ UNCHANGED <<eeVars, invVars>>

NextWalk == WalkAdd

SpecWalk == InitWalk /\ [][NextWalk]_vars

-----------------------------------------------------------------------------
(* Sequences of add, negate and multiply: each operation is applied to the  *)
(* point p the previous one produced.  res keeps the operands of the last   *)
(* operation.                                                               *)

InitChain ==
    /\ curve \in Curves
    /\ p \in InRangePoints(curve)
    /\ op = "none"
    /\ res = NoResult
    /\ EEIdle /\ InvIdle

\* p = &p + &q, with q a point in range.
ChainAdd ==
    /\ p.kind # "Panic"
    /\ \E q \in InRangePoints(curve) :
          /\ res' = [operand |-> p, q |-> q]
          /\ p' = add(curve, p, q)
    /\ op' = "add"
    /\ UNCHANGED curve
    /\ UNCHANGED <<eeVars, invVars>>

\* p = p.negate()
ChainNegate ==
    /\ p.kind # "Panic"
    /\ res' = [operand |-> p]
    /\ p' = negate(curve, p)
    /\ op' = "negate"
    /\ UNCHANGED curve
    /\ UNCHANGED <<eeVars, invVars>>

\* p = &p * &scalar
ChainMultiply ==
    /\ p.kind # "Panic"
    /\ \E scalar \in 0..MaxScalar :
          /\ res' = [operand |-> p]
          /\ p' = multiply(curve, p, scalar)
    /\ op' = "multiply"
    /\ UNCHANGED curve
    /\ UNCHANGED <<eeVars, invVars>>

NextChain == ChainAdd \/ ChainNegate \/ ChainMultiply

SpecChain == InitChain /\ [][NextChain]_vars

-----------------------------------------------------------------------------
(* The points reachable from the generator with add: res.reached grows by   *)
(* the sum of two points already in it.                                     *)

InitClosure ==
    /\ curve \in Curves
    /\ p = generator(curve)
    /\ op = "closure"
    /\ res = [reached |-> {p}]
    /\ EEIdle /\ InvIdle

ClosureAdd ==
    /\ op = "closure"
    /\ Cardinality(res.reached) < MaxReached
    /\ \E a \in res.reached, b \in res.reached :
          /\ add(curve, a, b) \notin res.reached
          /\ res' = [reached |-> res.reached \cup {add(curve, a, b)}]
    /\ UNCHANGED <<curve, p, op>>
    /\ UNCHANGED <<eeVars, invVars>>

NextClosure == ClosureAdd

SpecClosure == InitClosure /\ [][NextClosure]_vars

-----------------------------------------------------------------------------
(* Reference notions the properties are stated with. *)

Divides(d, n) == \E k \in -Abs(n)..Abs(n) : n = d * k

\* The greatest common divisor of |x| and |y| (0 for x = y = 0).
Gcd(x, y) ==
    IF x = 0 /\ y = 0 THEN 0
    ELSE CHOOSE d \in 1..(Abs(x) + Abs(y)) :
            /\ Divides(d, x) /\ Divides(d, y)
            /\ \A e \in 1..(Abs(x) + Abs(y)) :
                    Divides(e, x) /\ Divides(e, y) => e <= d

-----------------------------------------------------------------------------
(* C1: whenever extended_euclidean(a, b) has returned, its result satisfies  *)
(* a * bezout_coefficient_a + b * bezout_coefficient_b = gcd with gcd >= 0,  *)
(* for arguments of either sign and in either seeding branch.                *)
C1_BezoutIdentity ==
    ee_pc = "done" =>
        /\ ee_a * ee_result.bezout_coefficient_a
             + ee_b * ee_result.bezout_coefficient_b = ee_result.gcd
        /\ ee_result.gcd >= 0

\* A returned call seeded by the else branch (a <= b) with a negative first
\* argument, at least one loop iteration and both coefficients in play.
C1_Witness ==
    /\ ee_pc = "done"
    /\ ee_a < 0 /\ ee_a <= ee_b /\ ee_b # 0
    /\ ee_result.gcd > 1
    /\ ee_result.bezout_coefficient_a # 0
    /\ ee_result.bezout_coefficient_b # 0

-----------------------------------------------------------------------------
(* C2 as stated: for every m > 0 and a coprime to m, mod_mul_inverse(a, m)   *)
(* returns i with 0 <= i < m and (a * i) mod m = 1.                          *)
C2_InverseAsStated ==
    (inv_result # NoResult /\ inv_m > 0 /\ Gcd(inv_a, inv_m) = 1) =>
        /\ inv_result.kind = "Ok"
        /\ 0 <= inv_result.value /\ inv_result.value < inv_m
        /\ (inv_a * inv_result.value) % inv_m = 1

(* C2 amended: for every m > 0 and a coprime to m, mod_mul_inverse(a, m)     *)
(* returns i with 0 <= i < m and a * i congruent to 1 modulo m, that is      *)
(* (a * i) mod m = 1 mod m (which is 1 for m > 1 and 0 for m = 1); and       *)
(* mod_mul_inverse(2, 11) = 6.                                               *)
C2_Inverse ==
    (inv_result # NoResult /\ inv_m > 0 /\ Gcd(inv_a, inv_m) = 1) =>
        /\ inv_result.kind = "Ok"
        /\ 0 <= inv_result.value /\ inv_result.value < inv_m
        /\ (inv_a * inv_result.value) % inv_m = 1 % inv_m
        /\ (inv_a = 2 /\ inv_m = 11) => inv_result.value = 6

\* The documented example has been computed.
C2_Witness ==
    /\ inv_a = 2 /\ inv_m = 11
    /\ inv_result = Ok(6)

-----------------------------------------------------------------------------
(* C3: when gcd(a, m) # 1 for a positive modulus m, mod_mul_inverse(a, m)    *)
(* reports NoInverse and returns no integer.                                 *)
C3_NoInverseReported ==
    (inv_result # NoResult /\ inv_m > 0 /\ Gcd(inv_a, inv_m) # 1) =>
        inv_result.kind = "NoInverse"

(* C4: when m <= 0, mod_mul_inverse(a, m) reports InvalidModulus: it neither *)
(* returns an integer nor aborts with a division by zero.                    *)
C4_InvalidModulusReported ==
    (inv_result # NoResult /\ inv_m <= 0) =>
        inv_result.kind = "InvalidModulus"

-----------------------------------------------------------------------------
(* C5: add is associative: for all points p, q, r of the curve (on the       *)
(* curve, coordinates in [0, m), or the point at infinity),                  *)
(* (p + q) + r = p + (q + r).                                                *)
C5_AddAssociative ==
    (op = "associate" /\ OnCurve(curve, p)) =>
        res.left_first = res.right_first

(* C6: add is commutative: for all points p, q of the curve (on the curve,   *)
(* coordinates in [0, m), or the point at infinity), p + q = q + p.          *)
C6_AddCommutative ==
    (op = "add" /\ OnCurve(curve, p) /\ OnCurve(curve, res.q)) =>
        res.sum = res.sum_swapped

\* The chord rule has run in both orders: G + 2G = 2G + G = 3G on the test curve.
C6_Witness ==
    /\ op = "add"
    /\ curve = TestCurve
    /\ p = Point(4, 10)
    /\ res.q = Point(7, 7)
    /\ res.sum = Point(1, 9)
    /\ res.sum_swapped = Point(1, 9)

(* C7: the point at infinity is the identity of add: for every point p, also *)
(* one with unreduced coordinates, p + infinity = p and infinity + p = p     *)
(* with the coordinates unchanged, and infinity + infinity = infinity.       *)
C7_InfinityIsIdentity ==
    (op = "add" /\ res.q = PointAtInfinity) =>
        /\ res.sum = p
        /\ res.sum_swapped = p
        /\ p = PointAtInfinity => res.sum = PointAtInfinity

\* An affine point with a coordinate outside [0, m) was added to infinity.
C7_Witness ==
    /\ op = "add"
    /\ res.q = PointAtInfinity
    /\ p.kind = "Point"
    /\ p.x = curve.field_modulus /\ p.y = -1
    /\ res.sum = p /\ res.sum_swapped = p

(* C8: for every point p of the curve (on the curve, coordinates in [0, m),  *)
(* or the point at infinity), p + negate(p) is the point at infinity.        *)
C8_AddNegateIsInfinity ==
    (op = "negate" /\ OnCurve(curve, p)) =>
        res.sum = PointAtInfinity

(* C9: negate(infinity) = infinity, and negate(Point{x, y}) is               *)
(* Point{x, (m - y) mod m}: x kept, y replaced by its additive inverse.      *)
C9_NegateIsAdditiveInverse ==
    op = "negate" =>
        /\ p = PointAtInfinity => res.negated = PointAtInfinity
        /\ p.kind = "Point" =>
              res.negated = Point(p.x, (curve.field_modulus - p.y) % curve.field_modulus)

(* C10: doubling a point of the curve whose y-coordinate is congruent to 0   *)
(* modulo m (p + p with p = Point{x, 0}, such as (2, 0) on the test curve)   *)
(* returns the point at infinity, not an affine point and not a failure.     *)
C10_DoubleYZeroIsInfinity ==
    (op = "add" /\ p.kind = "Point" /\ OnCurve(curve, p)
       /\ res.q = p /\ p.y % curve.field_modulus = 0) =>
        res.sum = PointAtInfinity

-----------------------------------------------------------------------------
\* The number of set bits of a nonnegative integer.
RECURSIVE PopCount(_)
PopCount(n) == IF n = 0 THEN 0 ELSE (n % 2) + PopCount(n \div 2)

(* C11: for every scalar k >= 0 and every point p of the curve,              *)
(* multiply(k, p) equals the result of adding p k times with add, starting   *)
(* from the point at infinity; multiply(0, p) is the point at infinity.      *)
C11_MultiplyIsRepeatedAdd ==
    (op = "multiplied" /\ res.added = res.scalar_arg) =>
        /\ res.result = res.addition_result
        /\ res.scalar_arg = 0 => res.result = PointAtInfinity

(* C17: for every scalar k > 0, multiply builds a doubling cache of exactly  *)
(* bitlength(k) entries (entry 0 = p, entry i = entry i-1 added to itself),  *)
(* then reads the cache once per set bit of k, from the highest to the       *)
(* lowest, always within bounds, the remaining scalar strictly decreasing,   *)
(* and returns with remaining scalar 0 after popcount(k) additions.          *)
C17_MultiplyCacheAndBits ==
    (op \in {"cache", "accumulate", "multiplied", "panicked"} /\ res.scalar_arg > 0) =>
        LET k     == res.scalar_arg
            cache == res.double_cache
            used  == res.consumed
        IN  /\ op # "panicked"
            /\ Len(cache) >= 1 /\ Len(cache) <= bits(k)
            /\ cache[1] = p
            /\ \A i \in 2..Len(cache) : cache[i] = add(curve, cache[i - 1], cache[i - 1])
            /\ op \in {"accumulate", "multiplied"} => Len(cache) = bits(k)
            /\ \A i \in 1..Len(used) :
                  /\ used[i] + 1 \in 1..Len(cache)
                  /\ (k \div pow2(used[i])) % 2 = 1
                  /\ i > 1 => used[i] < used[i - 1]
            /\ res.scalar >= 0
            /\ res.scalar < pow2(IF used = << >> THEN bits(k) ELSE used[Len(used)])
            /\ Len(used) + PopCount(res.scalar) = PopCount(k)
            /\ op = "multiplied" => res.scalar = 0 /\ Len(used) = PopCount(k)

\* multiply(277, G) on the test curve has returned: 9 cache entries, 4 additions.
C17_Witness ==
    /\ op = "multiplied"
    /\ curve = TestCurve /\ p = Point(4, 10)
    /\ res.scalar_arg = TestScalar
    /\ Len(res.double_cache) = 9
    /\ res.consumed = <<8, 4, 2, 0>>
    /\ res.scalar = 0

-----------------------------------------------------------------------------
(* C12: for the generator G of a curve with group order n and all scalars    *)
(* x, y in [0, n), multiply(x, G) + multiply(y, G) = multiply((x + y) mod n, *)
(* G); on the test curve n = 12.                                             *)
C12_MultiplyAdditive ==
    op = "add_multiples" =>
        res.rational_multiplication = res.whole_multiplication

-----------------------------------------------------------------------------
\* The points the walk from G = (4, 10) on the test curve is to visit.
ExpectedPoints ==
    << Point(4, 10), Point(7, 7), Point(1, 9), Point(0, 6), Point(8, 8), Point(2, 0),
       Point(8, 3), Point(0, 5), Point(1, 2), Point(7, 4), Point(4, 1), PointAtInfinity,
       Point(4, 10) >>

(* C13: on the test curve, the walk Q := add(G, Q) from Q = G = (4, 10)      *)
(* visits (4,10), (7,7), (1,9), (0,6), (8,8), (2,0), (8,3), (0,5), (1,2),    *)
(* (7,4), (4,1), infinity in that order and then is back at (4,10): G is     *)
(* first revisited after exactly 12 additions.                               *)
C13_GeneratorWalk ==
    (op \in {"walk", "walked"} /\ curve = TestCurve /\ p = Point(4, 10)) =>
        /\ Len(res.computed_points) <= Len(ExpectedPoints)
        /\ res.computed_points = SubSeq(ExpectedPoints, 1, Len(res.computed_points))
        /\ op = "walked" <=> Len(res.computed_points) = Len(ExpectedPoints)

\* The walk from G has come back to G, through the point at infinity.
C13_Witness ==
    /\ op = "walked"
    /\ curve = TestCurve /\ p = Point(4, 10)
    /\ Len(res.computed_points) = 13
    /\ res.computed_points[12] = PointAtInfinity
    /\ res.new_point = p

-----------------------------------------------------------------------------
(* C14: starting from points with coordinates in [0, m), after any sequence  *)
(* of add, negate and multiply (scalar >= 0) the resulting point is the      *)
(* point at infinity or an affine point with both coordinates in [0, m),     *)
(* also when an intermediate difference or Bezout coefficient is negative.   *)
C14_CoordinatesInRange ==
    /\ p.kind \in {"Point", "PointAtInfinity"}
    /\ p.kind = "Point" =>
          /\ 0 <= p.x /\ p.x < curve.field_modulus
          /\ 0 <= p.y /\ p.y < curve.field_modulus

\* A chord addition whose x difference and whose raw Bezout coefficient are
\* both negative has produced an affine point.
C14_Witness ==
    /\ op = "add"
    /\ res.operand.kind = "Point" /\ res.q.kind = "Point"
    /\ res.q.x - res.operand.x < 0
    /\ extended_euclidean(res.q.x - res.operand.x,
                          curve.field_modulus).bezout_coefficient_a < 0
    /\ res.q.y - res.operand.y < 0
    /\ p.kind = "Point"
    /\ InRange(curve, p)

-----------------------------------------------------------------------------
(* C18: on the test curve y^2 = x^3 + 3 over F_11 with generator (4, 10),    *)
(* every point reachable from the generator by add operations on reachable   *)
(* points (a point added to itself included) is the point at infinity or an  *)
(* affine point satisfying the curve equation.                               *)
C18_ClosedOnCurve ==
    (op = "closure" /\ curve = TestCurve) =>
        \A pt \in res.reached : OnCurve(curve, pt)

-----------------------------------------------------------------------------
(* C15: the gcd returned by extended_euclidean(a, b) is the greatest common  *)
(* divisor of |a| and |b| for a, b of either sign: it divides a and b, every *)
(* common divisor divides it, and (0, 0) gives 0, (a, 0) gives |a|, (0, b)   *)
(* gives |b|.                                                                *)
C15_GcdIsGreatestCommonDivisor ==
    ee_pc = "done" =>
        LET g == ee_result.gcd
        IN  /\ g = Gcd(ee_a, ee_b)
            /\ Divides(g, ee_a) /\ Divides(g, ee_b)
            /\ \A e \in 1..(MaxAbs + 1) :
                  (Divides(e, ee_a) /\ Divides(e, ee_b)) => Divides(e, g)
            /\ (ee_a = 0 /\ ee_b = 0) => g = 0
            /\ ee_b = 0 => g = Abs(ee_a)
            /\ ee_a = 0 => g = Abs(ee_b)

\* A returned call on two negative arguments with a nontrivial gcd, whose raw
\* terminal remainder was negative.
C15_Witness ==
    /\ ee_pc = "done"
    /\ ee_a < 0 /\ ee_b < 0 /\ ee_a # ee_b
    /\ ee.remainder_prev < 0
    /\ ee_result.gcd > 1
    /\ ee_result.gcd < Abs(ee_a) /\ ee_result.gcd < Abs(ee_b)

(* C16: extended_euclidean(a, b) terminates for all integers a, b: every     *)
(* loop iteration divides by a nonzero remainder and leaves a remainder of   *)
(* strictly smaller absolute value, and the call eventually returns.         *)
C16_EuclidTerminates ==
    /\ [][EEIterate => /\ ee.remainder # 0
                       /\ Abs(ee'.remainder) < Abs(ee.remainder)]_vars
    /\ <>(ee_pc = "done")

\* A call with arguments of opposite sign has returned after at least three
\* iterations (the coefficient sequence has grown past its seeds).
C16_Witness ==
    /\ ee_pc = "done"
    /\ ee_a < 0 /\ ee_b > 0
    /\ ee.remainder = 0
    /\ Abs(ee.s) > 2 /\ Abs(ee.t) > 2

====
